---- MODULE Spec2Model ----
(***************************************************************************)
(* flowgo-server: the parcel / rider / payment HTTP handlers of the        *)
(* Express application, over the four MongoDB collections they share.      *)
(* Every await of a handler is one step; two request contexts interleave.  *)
(***************************************************************************)
EXTENDS Integers, Sequences, FiniteSets, TLC

\* ------------------------------------------------------------------ bounds
MaxParcels == 1
MaxPayments == 2
MaxUsers == 2
MaxRiders == 1
MaxTime == 1

MaxListed == 2

\* ------------------------------------------------------------------ values
Undef == "undefined"
Emails == {"a@x.com", "u@x.com", "n@x.com"}
Slots == {1, 2}

ParcelIds == 1..MaxParcels
RiderIds == 1..MaxRiders
\* a well-formed ObjectId no stored document carries (what new ObjectId(undefined)
\* generates for a missing body.parcelId is one too)
AbsentId == 90
\* a string new ObjectId() rejects (not 24 hex characters): the constructor throws
BadId == 91

NoDoc == [stored |-> FALSE]

VARIABLES
    users,      \* usersCollection: sequence of documents, in insertion order
    riders,     \* ridersCollection: rider id -> document or NoDoc
    parcels,    \* parcelCollection: parcel id -> document or NoDoc
    payments,   \* paymentCollection: sequence of documents, in insertion order
    reqs,       \* the requests being handled, one per context
    last,       \* the latest request answered (or left unanswered), with its response
    denials,    \* history: the refusals the two middlewares have sent, by cause
    now,        \* the server clock read by new Date()
    hist        \* history: ids handed out, parcels ever paid, confirmations answered

vars == <<users, riders, parcels, payments, reqs, last, denials, now, hist>>
db == <<users, riders, parcels, payments>>

\* ------------------------------------------------------------------ storage
\* collection.findOne({ email }): index of the first matching document, 0 if none
findOneUser(us, email) ==
    IF \E i \in 1..Len(us) : us[i].email = email
    THEN CHOOSE i \in 1..Len(us) :
            /\ us[i].email = email
            /\ \A j \in 1..(i - 1) : us[j].email # email
    ELSE 0

\* the update skipped
updateOneRoleSkipped(us, email, role) == us

\* usersCollection.updateOne({ email }, { $set: { role } }): the new collection
updateOneRole(us, email, role) ==
    LET i == findOneUser(us, email)
    IN  IF i = 0 THEN us ELSE [us EXCEPT ![i].role = role]

\* its modifiedCount: 1 when a document matched and the $set changed it
modifiedRole(us, email, role) ==
    LET i == findOneUser(us, email)
    IN  IF i # 0 /\ us[i].role # role THEN 1 ELSE 0

\* new ObjectId(id) throws on a malformed string
ObjectIdThrows(id) == id = BadId

\* { _id: new ObjectId(id) } matches a stored document of coll
matches(coll, id) == id \in DOMAIN coll /\ coll[id].stored

\* insertOne generates the next unused ObjectId
nextParcelId == Cardinality(hist.parcelIds) + 1
nextRiderId == Cardinality(hist.riderIds) + 1

\* ------------------------------------------------------------------ requests
NoRes == [status |-> 0, message |-> "", modified |-> -1, inserted |-> -1,
          value |-> Undef, rows |-> <<>>]

\* a request context: the route, the position reached (pc, and at: where the
\* response was produced), the decoded credential, the parameters still to be
\* used, the storage calls made so far, the response sent
Idle == [op |-> "idle", pc |-> "idle", at |-> "idle", cred |-> Undef, email |-> Undef,
         id |-> 0, status |-> Undef, riderId |-> Undef, riderName |-> Undef,
         riderContact |-> Undef, q |-> "", calls |-> 0, res |-> NoRes]

\* a new request takes the first context that is not in use
free(s) ==
    /\ reqs[s].pc = "idle"
    /\ \A u \in Slots : u < s => reqs[u].pc # "idle"

ended(r) == r.pc \in {"done", "hung"}

\* why a middleware refused r
cause(r) ==
    IF r.at = "verifyAdmin" THEN "role"
    ELSE IF r.cred \in {"none", "notoken"} THEN "no credential"
    ELSE "bad credential"

refused(r) == r.pc = "done" /\ r.at \in {"verifyFBToken", "verifyAdmin"}

\* the context moves on to r; a request that ended leaves it
Put(s, r) ==
    IF ended(r)
    THEN /\ reqs' = [reqs EXCEPT ![s] = Idle]
         /\ last' = r
         /\ denials' = IF refused(r)
                       THEN denials \cup {[cause |-> cause(r), status |-> r.res.status,
                                           message |-> r.res.message]}
                       ELSE denials
    ELSE /\ reqs' = [reqs EXCEPT ![s] = r]
         /\ UNCHANGED <<last, denials>>

\* a request entering an unprotected route
Open(op) == [Idle EXCEPT !.op = op, !.pc = "handler"]

\* res.status(code).send({ message }): the handler returns, its parameters are gone
Reply(r, code, msg) ==
    [Idle EXCEPT !.op = r.op, !.cred = r.cred, !.calls = r.calls, !.pc = "done",
                 !.at = r.pc,
                 !.res = [NoRes EXCEPT !.status = code, !.message = msg]]

\* a rejected promise no try/catch encloses: the failure leaves the handler
\* uncaught and the handler sends nothing (Express 4 leaves the request unanswered)
Uncaught(r) ==
    [Idle EXCEPT !.op = r.op, !.cred = r.cred, !.calls = r.calls, !.pc = "hung",
                 !.at = r.pc]

Called(r) == [r EXCEPT !.calls = @ + 1]

\* the header values a client can send: none, "Bearer" without a token, a token
\* the identity provider rejects, or a token it resolves to an email claim
Credentials == {"none", "notoken", "invalid"} \cup Emails

\* a missing header refused the way a rejected token is
verifyFBTokenForbidden(r, next) ==
    IF r.cred \in {"none", "notoken", "invalid"} THEN Reply(r, 403, "Forbidden access")
    ELSE [r EXCEPT !.pc = next]

verifyFBToken(r, next) ==
    IF r.cred = "none" THEN Reply(r, 404, "Unauthorized access")
    ELSE IF r.cred = "notoken" THEN Reply(r, 404, "Unauthorized access")
    ELSE IF r.cred = "invalid" THEN Reply(r, 403, "Forbidden access")
    ELSE [r EXCEPT !.pc = next]

\* a request entering a route behind verifyFBToken
Protected(op, cred) == [Idle EXCEPT !.op = op, !.cred = cred, !.pc = "verifyFBToken"]

\* the role test dropped
isAdminAnyUser(us, i) == i # 0

\* verifyAdmin's decision on the document findOne returned (index i, 0 = null)
isAdmin(us, i) == i # 0 /\ us[i].role = "admin"

\* ------------------------------------------------------------------ parcels
\* the check of the first field alone
requiredNameOnly(body) == body.name # ""

\* the fields of a POST /parcels body the handlers and the listings read
required(body) ==
    /\ body.name # ""
    /\ body.type # ""
    /\ body.senderRegion # ""
    /\ body.receiverRegion # ""

\* parcelCollection.insertOne(parcelData): the body is stored as it came
parcelDoc(body) ==
    [stored |-> TRUE,
     user_email |-> body.user_email,
     creation_date |-> body.creation_date,
     payment_status |-> body.payment_status,
     delivery_status |-> body.delivery_status,
     assignRider_id |-> Undef,
     assignRider_name |-> Undef,
     riderContact |-> Undef,
     assignedAt |-> -1]

\* POST /parcels
CreateParcel(s, body, ok) ==
    /\ free(s)
    /\ LET r == Open("POST /parcels")
       IN  IF ~required(body)
           THEN /\ Put(s, Reply(r, 400, "Missing required fields"))
                /\ UNCHANGED <<parcels, hist>>
           ELSE IF ~ok
           THEN /\ Put(s, Reply(Called(r), 500, "Failed to add parcel"))
                /\ UNCHANGED <<parcels, hist>>
           ELSE /\ nextParcelId \in ParcelIds
                /\ parcels' = [parcels EXCEPT ![nextParcelId] = parcelDoc(body)]
                /\ hist' = [hist EXCEPT !.parcelIds = @ \cup {nextParcelId},
                                        !.everPaid = IF body.payment_status = "paid"
                                                     THEN @ \cup {nextParcelId} ELSE @]
                /\ Put(s,
                        [Reply(Called(r), 201, "Parcel added successfully!")
                            EXCEPT !.res.inserted = nextParcelId])
    /\ UNCHANGED <<users, riders, payments, now>>

\* POST /payments, up to the await of paymentCollection.insertOne
paymentDoc(email, parcelId, amount, transactionId, paymentMethod, date) ==
    [email |-> email, parcelId |-> parcelId, amount |-> amount,
     transactionId |-> transactionId, paymentMethod |-> paymentMethod,
     payment_status |-> "paid", date |-> date]

ConfirmInsert(s, email, transactionId, amount, parcelId, paymentMethod, ok) ==
    /\ free(s)
    /\ LET r == [Open("POST /payments") EXCEPT !.email = email, !.id = parcelId]
       IN  IF email = Undef \/ transactionId = Undef \/ amount = 0
           THEN /\ Put(s, Reply(r, 400, "Missing payment fields"))
                /\ UNCHANGED payments
           ELSE IF ~ok
           THEN /\ Put(s,
                        Reply(Called(r), 500, "Failed to process payment"))
                /\ UNCHANGED payments
           ELSE /\ Len(payments) < MaxPayments
                /\ payments' = Append(payments,
                        paymentDoc(email, parcelId, amount, transactionId, paymentMethod, now))
                /\ Put(s,
                        [Called(r) EXCEPT !.pc = "update",
                                          !.res.inserted = Len(payments) + 1])
    /\ UNCHANGED <<users, riders, parcels, now, hist>>

\* parcelCollection.updateOne({ _id }, { $set: { payment_status: "paid" } }).modifiedCount
modifiedPaid(ps, id) ==
    IF matches(ps, id) /\ ps[id].payment_status # "paid" THEN 1 ELSE 0

setPaid(ps, id) ==
    IF matches(ps, id) THEN [ps EXCEPT ![id].payment_status = "paid"] ELSE ps

\* POST /payments, from the parcel update to the response
ConfirmUpdate(s, ok) ==
    /\ reqs[s].op = "POST /payments"
    /\ reqs[s].pc = "update"
    /\ LET r == reqs[s]
       IN  IF ObjectIdThrows(r.id)
           THEN /\ Put(s, Reply(r, 500, "Failed to process payment"))
                /\ UNCHANGED <<parcels, hist>>
           ELSE IF ~ok
           THEN /\ Put(s,
                        Reply(Called(r), 500, "Failed to process payment"))
                /\ UNCHANGED <<parcels, hist>>
           ELSE /\ parcels' = setPaid(parcels, r.id)
                /\ hist' = [hist EXCEPT !.paidOk = @ \cup {r.id},
                                        !.everPaid = IF matches(parcels, r.id)
                                                     THEN @ \cup {r.id} ELSE @]
                /\ Put(s,
                        [Reply(Called(r), 200, "Payment saved and parcel updated successfully")
                            EXCEPT !.res.inserted = r.res.inserted,
                                   !.res.modified = modifiedPaid(parcels, r.id)])
    /\ UNCHANGED <<users, riders, payments, now>>

\* GET /parcels/:id
GetParcel(s, cred, id, ok) ==
    /\ free(s)
    /\ LET r == verifyFBToken(Protected("GET /parcels/:id", cred), "handler")
       IN  Put(s,
                IF r.pc = "done" THEN r
                ELSE IF ObjectIdThrows(id) THEN Reply(r, 500, "Failed to fetch parcel")
                ELSE IF ~ok THEN Reply(Called(r), 500, "Failed to fetch parcel")
                ELSE IF ~matches(parcels, id) THEN Reply(Called(r), 404, "Parcel not found")
                ELSE [Reply(Called(r), 200, "parcel")
                        EXCEPT !.res.value = parcels[id].payment_status])
    /\ UNCHANGED <<db, now, hist>>

\* the delete taking the parcel's Payment records with it
DeleteParcelCascade(s, id, ok) ==
    /\ free(s)
    /\ LET r == Open("DELETE /parcels/:id")
       IN  IF ObjectIdThrows(id)
           THEN /\ Put(s, Reply(r, 500, "Failed to delete parcel"))
                /\ UNCHANGED <<parcels, payments>>
           ELSE IF ~ok
           THEN /\ Put(s, Reply(Called(r), 500, "Failed to delete parcel"))
                /\ UNCHANGED <<parcels, payments>>
           ELSE IF matches(parcels, id)
           THEN /\ parcels' = [parcels EXCEPT ![id] = NoDoc]
                /\ payments' = SelectSeq(payments, LAMBDA p : p.parcelId # id)
                /\ Put(s, Reply(Called(r), 200, "Parcel deleted successfully"))
           ELSE /\ Put(s, Reply(Called(r), 404, "Parcel not found"))
                /\ UNCHANGED <<parcels, payments>>
    /\ UNCHANGED <<users, riders, now, hist>>

\* DELETE /parcels/:id
DeleteParcel(s, id, ok) ==
    /\ free(s)
    /\ LET r == Open("DELETE /parcels/:id")
       IN  IF ObjectIdThrows(id)
           THEN /\ Put(s, Reply(r, 500, "Failed to delete parcel"))
                /\ UNCHANGED parcels
           ELSE IF ~ok
           THEN /\ Put(s, Reply(Called(r), 500, "Failed to delete parcel"))
                /\ UNCHANGED parcels
           ELSE IF matches(parcels, id)
           THEN /\ parcels' = [parcels EXCEPT ![id] = NoDoc]
                /\ Put(s, Reply(Called(r), 200, "Parcel deleted successfully"))
           ELSE /\ Put(s, Reply(Called(r), 404, "Parcel not found"))
                /\ UNCHANGED parcels
    /\ UNCHANGED <<users, riders, payments, now, hist>>

\* ------------------------------------------------------------------ admin gate
AdminOps == {"GET /riders/pending", "GET /riders/active", "PATCH /riders/:id",
             "GET /riders/by-district", "PATCH /parcels/assign/:id",
             "GET /users/search", "PATCH /users/make-admin/:email",
             "PATCH /users/remove-admin/:email"}

NoArgs == [email |-> Undef, id |-> 0, status |-> Undef, riderId |-> Undef,
           riderName |-> Undef, riderContact |-> Undef, q |-> ""]

\* a request to an admin route: verifyFBToken, then verifyAdmin's findOne and check
AdminStart(s, op, cred, a, ok) ==
    /\ free(s)
    /\ op \in AdminOps
    /\ LET r == verifyFBToken(
                  [Protected(op, cred) EXCEPT !.email = a.email, !.id = a.id,
                               !.status = a.status, !.riderId = a.riderId,
                               !.riderName = a.riderName,
                               !.riderContact = a.riderContact, !.q = a.q],
                  "verifyAdmin")
       IN  Put(s,
                IF r.pc = "done" THEN r
                ELSE IF ~ok THEN Uncaught(Called(r))
                ELSE IF ~isAdmin(users, findOneUser(users, r.cred))
                THEN Reply(Called(r), 403, "Forbidden access")
                ELSE [Called(r) EXCEPT !.pc = "handler"])
    /\ UNCHANGED <<db, now, hist>>

atHandler(s, op) == reqs[s].op = op /\ reqs[s].pc = "handler"

\* PATCH /parcels/assign/:id, after the middlewares
updateData(r, date) ==
    [delivery_status |-> "in_transit", assignedAt |-> date,
     assignRider_id |-> r.riderId, assignRider_name |-> r.riderName,
     riderContact |-> r.riderContact]

assigned(doc, u) ==
    [doc EXCEPT !.delivery_status = u.delivery_status, !.assignedAt = u.assignedAt,
                !.assignRider_id = u.assignRider_id,
                !.assignRider_name = u.assignRider_name,
                !.riderContact = u.riderContact]

\* updateOne({ _id }, { $set: updateData }).modifiedCount
modifiedAssign(ps, id, u) ==
    IF matches(ps, id) /\ assigned(ps[id], u) # ps[id] THEN 1 ELSE 0

AssignRider(s, ok) ==
    /\ atHandler(s, "PATCH /parcels/assign/:id")
    /\ LET r == reqs[s]
           u == updateData(r, now)
       IN  IF r.riderId = Undef
           THEN /\ Put(s,
                        Reply(r, 400, "Parcel ID and Rider ID are required"))
                /\ UNCHANGED parcels
           ELSE IF ObjectIdThrows(r.id)
           THEN /\ Put(s, Reply(r, 500, "Internal server error"))
                /\ UNCHANGED parcels
           ELSE IF ~ok
           THEN /\ Put(s, Reply(Called(r), 500, "Internal server error"))
                /\ UNCHANGED parcels
           ELSE IF modifiedAssign(parcels, r.id, u) = 0
           THEN /\ Put(s,
                        Reply(Called(r), 404, "Parcel not found or already assigned"))
                /\ UNCHANGED parcels
           ELSE /\ parcels' = [parcels EXCEPT ![r.id] = assigned(@, u)]
                /\ Put(s,
                        [Reply(Called(r), 200, "Rider assigned successfully")
                            EXCEPT !.res.modified = 1])
    /\ UNCHANGED <<users, riders, payments, now, hist>>

\* the clock new Date() reads moves on between requests
Tick ==
    /\ now < MaxTime
    /\ now' = now + 1
    /\ UNCHANGED <<db, reqs, last, denials, hist>>

\* ------------------------------------------------------------------ users
\* an existing email updated with the role of the body instead of being rejected
PostUserFindUpsert(s, email, role, ok) ==
    /\ free(s)
    /\ LET r == [Open("POST /users") EXCEPT !.email = email, !.status = role]
       IN  /\ Put(s,
                IF email = Undef THEN Reply(r, 400, "Email is required")
                ELSE IF ~ok THEN Reply(Called(r), 500, "Internal server error")
                ELSE IF findOneUser(users, email) # 0
                THEN Reply(Called(r), 200, "User updated")
                ELSE [Called(r) EXCEPT !.pc = "insert"])
           /\ users' = IF email # Undef /\ ok THEN updateOneRole(users, email, role) ELSE users
    /\ UNCHANGED <<riders, parcels, payments, now, hist>>

\* POST /users, up to the await of usersCollection.findOne
PostUserFind(s, email, role, ok) ==
    /\ free(s)
    /\ LET r == [Open("POST /users") EXCEPT !.email = email, !.status = role]
       IN  Put(s,
                IF email = Undef THEN Reply(r, 400, "Email is required")
                ELSE IF ~ok THEN Reply(Called(r), 500, "Internal server error")
                ELSE IF findOneUser(users, email) # 0
                THEN Reply(Called(r), 409, "Email already exists")
                ELSE [Called(r) EXCEPT !.pc = "insert"])
    /\ UNCHANGED <<db, now, hist>>

\* POST /users, from usersCollection.insertOne to the response
PostUserInsert(s, ok) ==
    /\ reqs[s].op = "POST /users"
    /\ reqs[s].pc = "insert"
    /\ LET r == reqs[s]
       IN  IF ~ok
           THEN /\ Put(s, Reply(Called(r), 500, "Internal server error"))
                /\ UNCHANGED users
           ELSE /\ Len(users) < MaxUsers
                /\ users' = Append(users, [email |-> r.email, role |-> r.status])
                /\ Put(s,
                        [Reply(Called(r), 201, "User inserted successfully")
                            EXCEPT !.res.inserted = Len(users) + 1])
    /\ UNCHANGED <<riders, parcels, payments, now, hist>>

\* GET /users/role/:email
GetRole(s, email, ok) ==
    /\ free(s)
    /\ LET r == Open("GET /users/role/:email")
           i == findOneUser(users, email)
       IN  Put(s,
                IF ~ok THEN Reply(Called(r), 500, "Failed to fetch user role")
                ELSE IF i = 0 THEN Reply(Called(r), 404, "User not found")
                ELSE [Reply(Called(r), 200, "role") EXCEPT !.res.value = users[i].role])
    /\ UNCHANGED <<db, now, hist>>

\* PATCH /users/make-admin/:email and PATCH /users/remove-admin/:email share a body
setRole(s, op, role, gone, done, ok) ==
    /\ atHandler(s, op)
    /\ LET r == reqs[s]
       IN  IF ~ok
           THEN /\ Put(s,
                        Reply(Called(r), 500, "Failed to update user role"))
                /\ UNCHANGED users
           ELSE /\ users' = updateOneRole(users, r.email, role)
                /\ Put(s,
                        IF modifiedRole(users, r.email, role) = 0
                        THEN Reply(Called(r), 404, gone)
                        ELSE [Reply(Called(r), 200, done) EXCEPT !.res.modified = 1])
    /\ UNCHANGED <<riders, parcels, payments, now, hist>>

MakeAdmin(s, ok) ==
    setRole(s, "PATCH /users/make-admin/:email", "admin",
            "User not found or already admin", "is now an admin", ok)

RemoveAdmin(s, ok) ==
    setRole(s, "PATCH /users/remove-admin/:email", "user",
            "User not found or already not an admin", "is no longer an admin", ok)

\* ------------------------------------------------------------------ riders
\* POST /riders: the body is stored as it came; no try/catch
riderDoc(body) ==
    [stored |-> TRUE, status |-> body.status, district |-> body.district,
     submittedAt |-> body.submittedAt]

ApplyRider(s, body, ok) ==
    /\ free(s)
    /\ LET r == Open("POST /riders")
       IN  IF ~ok
           THEN /\ Put(s, Uncaught(Called(r)))
                /\ UNCHANGED <<riders, hist>>
           ELSE /\ nextRiderId \in RiderIds
                /\ riders' = [riders EXCEPT ![nextRiderId] = riderDoc(body)]
                /\ hist' = [hist EXCEPT !.riderIds = @ \cup {nextRiderId}]
                /\ Put(s,
                        [Reply(Called(r), 200, "insertOne result")
                            EXCEPT !.res.inserted = nextRiderId])
    /\ UNCHANGED <<users, parcels, payments, now>>

\* one more value let through
validStatusWider == {"pending", "active", "rejected", "deleted"}

validStatus == {"pending", "active", "rejected"}

\* ridersCollection.updateOne({ _id }, { $set: { status } }) and the response
riderWrite(s, r, ok) ==
    IF ObjectIdThrows(r.id)
    THEN /\ Put(s, Reply(r, 500, "Internal server error"))
         /\ UNCHANGED riders
    ELSE IF ~ok
    THEN /\ Put(s, Reply(Called(r), 500, "Internal server error"))
         /\ UNCHANGED riders
    ELSE IF matches(riders, r.id) /\ riders[r.id].status # r.status
    THEN /\ riders' = [riders EXCEPT ![r.id].status = r.status]
         /\ Put(s,
                [Reply(Called(r), 200, "Rider status updated") EXCEPT !.res.modified = 1])
    ELSE /\ Put(s,
                Reply(Called(r), 404, "Rider not found or status unchanged"))
         /\ UNCHANGED riders

\* PATCH /riders/:id, after the middlewares: validation, then for "active" the role
\* promotion (awaited outside the try), else straight to the status write
UpdateStatus(s, ok) ==
    /\ atHandler(s, "PATCH /riders/:id")
    /\ LET r == reqs[s]
       IN  IF r.status = Undef
           THEN /\ Put(s,
                        Reply(r, 400, "Rider ID and status are required"))
                /\ UNCHANGED <<users, riders>>
           ELSE IF r.status \notin validStatus
           THEN /\ Put(s, Reply(r, 400, "Invalid status value"))
                /\ UNCHANGED <<users, riders>>
           ELSE IF r.status = "active"
           THEN /\ UNCHANGED riders
                /\ IF ~ok
                   THEN /\ Put(s, Uncaught(Called(r)))
                        /\ UNCHANGED users
                   ELSE /\ users' = updateOneRole(users, r.email, "rider")
                        /\ Put(s, [Called(r) EXCEPT !.pc = "write"])
           ELSE /\ riderWrite(s, r, ok)
                /\ UNCHANGED users
    /\ UNCHANGED <<parcels, payments, now, hist>>

\* PATCH /riders/:id with "active", from the status write to the response
UpdateStatusWrite(s, ok) ==
    /\ reqs[s].op = "PATCH /riders/:id"
    /\ reqs[s].pc = "write"
    /\ riderWrite(s, reqs[s], ok)
    /\ UNCHANGED <<users, parcels, payments, now, hist>>

\* ------------------------------------------------------------------ listings
\* find(filter).sort({ key: -1 }).toArray(): the matching ids in an order that is
\* descending by key (the order among equal keys is the storage engine's)
orders(S) ==
    {f \in [1..Cardinality(S) -> S] : \A i, j \in DOMAIN f : i # j => f[i] # f[j]}

sortedBy(coll, S, key) ==
    {f \in orders(S) : \A i, j \in DOMAIN f : i < j => coll[f[i]][key] >= coll[f[j]][key]}

submittedAt == "submittedAt"

ridersWith(status, district) ==
    {i \in DOMAIN riders : /\ riders[i].stored
                      /\ riders[i].status = status
                      /\ district \in {"", riders[i].district}}

\* GET /riders/pending and GET /riders/active, after the middlewares
ListRiders(s, ok) ==
    /\ \/ atHandler(s, "GET /riders/pending")
       \/ atHandler(s, "GET /riders/active")
    /\ LET r == reqs[s]
           status == IF r.op = "GET /riders/pending" THEN "pending" ELSE "active"
       IN  IF ~ok
           THEN Put(s, Reply(Called(r), 500, "Failed to fetch riders"))
           ELSE \E rows \in sortedBy(riders, ridersWith(status, ""), submittedAt) :
                    Put(s,
                        [Reply(Called(r), 200, "riders") EXCEPT !.res.rows = rows])
    /\ UNCHANGED <<db, now, hist>>

\* GET /riders/by-district, after the middlewares
ListByDistrict(s, ok) ==
    /\ atHandler(s, "GET /riders/by-district")
    /\ LET r == reqs[s]
       IN  IF r.q = ""
           THEN Put(s, Reply(r, 400, "District is required"))
           ELSE IF ~ok
           THEN Put(s,
                    Reply(Called(r), 500, "Failed to fetch active riders by district"))
           ELSE \E rows \in sortedBy(riders, ridersWith("active", r.q), submittedAt) :
                    Put(s,
                        [Reply(Called(r), 200, "riders") EXCEPT !.res.rows = rows,
                                                                !.q = r.q])
    /\ UNCHANGED <<db, now, hist>>

\* { email: { $regex: queryText, $options: "i" } } for a query without regex
\* metacharacters: a case-insensitive substring test
chars(str) ==
    CASE str = "a@x.com" -> <<"a", "@", "x", ".", "c", "o", "m">>
      [] str = "u@x.com" -> <<"u", "@", "x", ".", "c", "o", "m">>
      [] str = "A@" -> <<"A", "@">>
      [] str = "u@" -> <<"u", "@">>
      [] str = "zz" -> <<"z", "z">>
      [] OTHER -> <<>>

lower(c) == IF c = "A" THEN "a" ELSE IF c = "U" THEN "u" ELSE c

regexMatch(q, str) ==
    LET a == chars(q)
        b == chars(str)
    IN  \E k \in 0..(Len(b) - Len(a)) :
            \A i \in 1..Len(a) : lower(a[i]) = lower(b[k + i])

Limit == 10

\* find(...).limit(10).toArray(): the first ten matches in storage order
firstMatches(us, q) ==
    LET idx == {i \in 1..Len(us) : regexMatch(q, us[i].email)}
        rank(i) == Cardinality({j \in idx : j <= i})
    IN  [k \in 1..(IF Cardinality(idx) < Limit THEN Cardinality(idx) ELSE Limit) |->
            CHOOSE i \in idx : rank(i) = k]

\* GET /users/search, after the middlewares
SearchUsers(s, ok) ==
    /\ atHandler(s, "GET /users/search")
    /\ LET r == reqs[s]
       IN  Put(s,
                IF r.q = "" THEN Reply(r, 400, "Search query is required")
                ELSE IF ~ok THEN Reply(Called(r), 500, "Failed to search users")
                ELSE [Reply(Called(r), 200, "users") EXCEPT !.res.rows = firstMatches(users, r.q)])
    /\ UNCHANGED <<db, now, hist>>

\* the email claim of a verified token: an anonymous sign-in carries none
decodedEmail(cred) == IF cred = "anonymous" THEN Undef ELSE cred

\* the ownership test with admins let through
sameEmailOrAdmin(decoded, userEmail) ==
    decoded = userEmail \/ isAdmin(users, findOneUser(users, decoded))

\* req.decoded.email !== userEmail, negated
sameEmail(decoded, userEmail) == decoded = userEmail

paymentsOfEmail(email) == {i \in 1..Len(payments) : payments[i].email = email}

\* GET /payments?email=: the caller's payment history, newest first
GetPayments(s, cred, email, ok) ==
    /\ free(s)
    /\ LET r == verifyFBToken(Protected("GET /payments", cred), "handler")
           asked(x) == [x EXCEPT !.email = email]
       IN  IF r.pc = "done" THEN Put(s, asked(r))
           ELSE IF ~sameEmail(decodedEmail(r.cred), email)
           THEN Put(s, asked(Reply(r, 403, "Forbidden access")))
           ELSE IF email = Undef
           THEN Put(s, asked(Reply(r, 400, "Email is required in query!")))
           ELSE IF ~ok
           THEN Put(s, asked(Reply(Called(r), 500, "Failed to fetch payments")))
           ELSE \E rows \in sortedBy(payments, paymentsOfEmail(email), "date") :
                    Put(s,
                        asked([Reply(Called(r), 200, "payments") EXCEPT !.res.rows = rows]))
    /\ UNCHANGED <<db, now, hist>>

\* creation_date as clients send it in the JSON body: a date string or a number of
\* milliseconds (written here with its digits)
ParcelDates == {"2024-01-05", "2024-03-05", "1717200000000"}

\* new Date(creation_date).getTime(), as a rank: the number is 1 June 2024
dateValue(d) ==
    CASE d = "2024-01-05" -> 1
      [] d = "2024-03-05" -> 2
      [] d = "1717200000000" -> 3

\* the place of creation_date in the order .sort({ creation_date: -1 }) uses:
\* numbers come below strings, strings compare character by character
bsonKey(d) ==
    CASE d = "1717200000000" -> 1
      [] d = "2024-01-05" -> 2
      [] d = "2024-03-05" -> 3

\* find(query): email, payment_status and delivery_status each filter only when
\* the query string carries a non-empty value
parcelsWith(email, payment_status, delivery_status) ==
    {i \in DOMAIN parcels :
        /\ parcels[i].stored
        /\ email = "" \/ parcels[i].user_email = email
        /\ payment_status = "" \/ parcels[i].payment_status = payment_status
        /\ delivery_status = "" \/ parcels[i].delivery_status = delivery_status}

creationKeys ==
    [i \in DOMAIN parcels |->
        [key |-> IF parcels[i].stored THEN bsonKey(parcels[i].creation_date) ELSE 0]]

\* the rows left in the order the database returned them
jsSortSkipped(f) == f

\* parcels.sort((a, b) => new Date(b.creation_date) - new Date(a.creation_date)):
\* descending by parsed date; Array.prototype.sort is stable
jsSorted(f) ==
    LET S == {f[k] : k \in DOMAIN f}
        pos(i) == CHOOSE k \in DOMAIN f : f[k] = i
        v(i) == dateValue(parcels[i].creation_date)
    IN  CHOOSE g \in orders(S) :
            \A a, b \in DOMAIN g :
                a < b => \/ v(g[a]) > v(g[b])
                         \/ v(g[a]) = v(g[b]) /\ pos(g[a]) < pos(g[b])

\* GET /parcels?email=&payment_status=&delivery_status=
ListParcels(s, cred, email, payment_status, delivery_status, ok) ==
    /\ free(s)
    /\ LET r == verifyFBToken(Protected("GET /parcels", cred), "handler")
           asked(x) == [x EXCEPT !.email = email, !.status = payment_status,
                                 !.q = delivery_status]
       IN  IF r.pc = "done" THEN Put(s, asked(r))
           ELSE IF ~ok THEN Put(s, asked(Reply(Called(r), 500, "Failed to fetch parcels")))
           ELSE \E f \in sortedBy(creationKeys,
                                  parcelsWith(email, payment_status, delivery_status), "key") :
                    Put(s,
                        asked([Reply(Called(r), 200, "parcels")
                                  EXCEPT !.res.rows = jsSorted(f)]))
    /\ UNCHANGED <<db, now, hist>>

\* ------------------------------------------------------------------ system
\* The database outlives the server: a run starts from the collections earlier
\* requests left.  Each specification below starts from such a database and
\* takes the requests of one subsystem, drawn from small sets.
Empty ==
    /\ riders = [i \in RiderIds |-> NoDoc]
    /\ parcels = [i \in ParcelIds |-> NoDoc]
    /\ payments = <<>>
    /\ reqs = [s \in Slots |-> Idle]
    /\ last = Idle
    /\ denials = {}
    /\ now = 0
    /\ hist = [parcelIds |-> {}, riderIds |-> {}, everPaid |-> {}, paidOk |-> {}]

\* what POST /users leaves after { a@x.com, admin } and { u@x.com, user }
SeedUsers == <<[email |-> "a@x.com", role |-> "admin"], [email |-> "u@x.com", role |-> "user"]>>

\* ids a client can name: those a response handed out, and one no document has
knownParcels == hist.parcelIds \cup {AbsentId}
knownRiders == hist.riderIds \cup {AbsentId}

Body(name, payment_status) ==
    [name |-> name, type |-> "doc", senderRegion |-> "N", receiverRegion |-> "S",
     user_email |-> "u@x.com", creation_date |-> 0, payment_status |-> payment_status,
     delivery_status |-> "not_collected"]

AssignArgs(ids, rs) ==
    {[NoArgs EXCEPT !.id = id, !.riderId = rd, !.riderName = rd, !.riderContact = rd] :
        id \in ids, rd \in rs}

StatusArgs(ids, sts, es) ==
    {[NoArgs EXCEPT !.id = id, !.status = st, !.email = e] :
        id \in ids, st \in sts, e \in es}

RoleArgs(es) == {[NoArgs EXCEPT !.email = e] : e \in es}

QueryArgs(qs) == {[NoArgs EXCEPT !.q = q] : q \in qs}

\* ---- parcels and payments: the parcel lifecycle and the payment ledger
Init ==
    /\ users = SeedUsers
    /\ Empty

Next ==
    \/ \E s \in Slots, ok \in BOOLEAN :
        \/ \E n \in {"", "Box"}, p \in {"unpaid", "paid"} : CreateParcel(s, Body(n, p), ok)
        \/ \E e \in {"u@x.com", Undef}, id \in knownParcels \cup {BadId} :
                ConfirmInsert(s, e, "tx", 100, id, "card", ok)
        \/ ConfirmUpdate(s, ok)
        \/ \E id \in knownParcels : GetParcel(s, "u@x.com", id, ok)
        \/ \E id \in knownParcels : DeleteParcel(s, id, ok)
        \/ \E a \in AssignArgs(knownParcels, {Undef, "r1", "r2"}) :
                AdminStart(s, "PATCH /parcels/assign/:id", "a@x.com", a, ok)
        \/ AssignRider(s, ok)

Spec == Init /\ [][Next]_vars

\* ---- rider assignment, with the clock that stamps assignedAt
NextAssign ==
    \/ \E s \in Slots, ok \in BOOLEAN :
        \/ \E n \in {"", "Box"}, d \in {"not_collected", "in_transit"} :
                CreateParcel(s, [Body(n, "unpaid") EXCEPT !.delivery_status = d], ok)
        \/ \E a \in AssignArgs(knownParcels \cup {BadId}, {Undef, "r1", "r2"}) :
                AdminStart(s, "PATCH /parcels/assign/:id", "a@x.com", a, ok)
        \/ AssignRider(s, ok)
        \/ \E id \in knownParcels : GetParcel(s, "u@x.com", id, ok)
        \/ \E id \in knownParcels : DeleteParcel(s, id, ok)
    \/ Tick

SpecAssign == Init /\ [][NextAssign]_vars

\* ---- riders: applications, status changes and the roles they touch
NextRiders ==
    \E s \in Slots, ok \in BOOLEAN :
        \/ ApplyRider(s, [status |-> "pending", district |-> "Dhaka", submittedAt |-> 0], ok)
        \/ \E a \in StatusArgs(knownRiders, validStatus \cup {"deleted"},
                                {"u@x.com", "n@x.com"}) :
                AdminStart(s, "PATCH /riders/:id", "a@x.com", a, ok)
        \/ UpdateStatus(s, ok)
        \/ UpdateStatusWrite(s, ok)
        \/ \E op \in {"PATCH /users/make-admin/:email", "PATCH /users/remove-admin/:email"} :
                \E a \in RoleArgs({"u@x.com"}) : AdminStart(s, op, "a@x.com", a, ok)
        \/ MakeAdmin(s, ok)
        \/ RemoveAdmin(s, ok)
        \/ \E e \in {"u@x.com", "n@x.com"} : GetRole(s, e, ok)

SpecRiders == Init /\ [][NextRiders]_vars

\* ---- access: the two middlewares in front of every admin route
\* a database holding the seed users, one pending application and one parcel
InitAccess ==
    /\ users = SeedUsers
    /\ riders = [i \in RiderIds |->
                    IF i = 1 THEN riderDoc([status |-> "pending", district |-> "Dhaka",
                                            submittedAt |-> 0])
                    ELSE NoDoc]
    /\ parcels = [i \in ParcelIds |-> IF i = 1 THEN parcelDoc(Body("Box", "unpaid")) ELSE NoDoc]
    /\ payments = <<>>
    /\ reqs = [s \in Slots |-> Idle]
    /\ last = Idle
    /\ denials = {}
    /\ now = 0
    /\ hist = [parcelIds |-> {1}, riderIds |-> {1}, everPaid |-> {}, paidOk |-> {}]

AdminArgs(op) ==
    CASE op = "PATCH /parcels/assign/:id" -> AssignArgs({1}, {"r1"})
      [] op = "PATCH /riders/:id" -> StatusArgs({1}, {"active", "rejected"}, {"u@x.com"})
      [] op \in {"PATCH /users/make-admin/:email", "PATCH /users/remove-admin/:email"}
            -> RoleArgs({"u@x.com"})
      [] op = "GET /riders/by-district" -> QueryArgs({"Dhaka"})
      [] op = "GET /users/search" -> QueryArgs({"A@"})
      [] OTHER -> {NoArgs}

\* the middlewares decide a request from its token and one lookup of users:
\* requests are taken one at a time here
NextAccess ==
    \E s \in {1}, ok \in BOOLEAN :
        \/ \E op \in AdminOps, c \in Credentials :
                \E a \in AdminArgs(op) : AdminStart(s, op, c, a, ok)
        \/ ListRiders(s, ok)
        \/ UpdateStatus(s, ok)
        \/ UpdateStatusWrite(s, ok)
        \/ ListByDistrict(s, ok)
        \/ AssignRider(s, ok)
        \/ SearchUsers(s, ok)
        \/ MakeAdmin(s, ok)
        \/ RemoveAdmin(s, ok)

SpecAccess == InitAccess /\ [][NextAccess]_vars

\* ---- payment history: confirmations by two users, read back by several callers
NextHistory ==
    \/ \E s \in Slots, ok \in BOOLEAN :
        \/ \E e \in {"u@x.com", "a@x.com"} :
                ConfirmInsert(s, e, "tx", 100, AbsentId, "card", ok)
        \/ ConfirmUpdate(s, ok)
        \/ \E c \in {"none", "anonymous", "a@x.com", "u@x.com"},
              e \in {Undef, "a@x.com", "u@x.com"} : GetPayments(s, c, e, ok)
    \/ Tick

SpecHistory == Init /\ [][NextHistory]_vars

\* ---- users: registration from an empty collection and every route that writes
\* or reads a role
InitUsers ==
    /\ users = <<>>
    /\ Empty

RoleRoutes(s, ok) ==
    \/ \E e \in {Undef, "a@x.com", "u@x.com"}, role \in {"admin", "user"} :
            PostUserFind(s, e, role, ok)
    \/ PostUserInsert(s, ok)
    \/ GetRole(s, "u@x.com", ok)
    \/ \E a \in StatusArgs({AbsentId}, {"active", "rejected"}, {"u@x.com"}) :
            AdminStart(s, "PATCH /riders/:id", "a@x.com", a, ok)
    \/ UpdateStatus(s, ok)
    \/ UpdateStatusWrite(s, ok)
    \/ \E op \in {"PATCH /users/make-admin/:email", "PATCH /users/remove-admin/:email"} :
            \E a \in RoleArgs({"u@x.com"}) : AdminStart(s, op, "a@x.com", a, ok)
    \/ MakeAdmin(s, ok)
    \/ RemoveAdmin(s, ok)
    \/ \E a \in QueryArgs({"u@"}) : AdminStart(s, "GET /users/search", "a@x.com", a, ok)
    \/ SearchUsers(s, ok)

NextUsers == \E s \in Slots, ok \in BOOLEAN : RoleRoutes(s, ok)

SpecUsers == InitUsers /\ [][NextUsers]_vars

\* ---- roles: the same routes with one request of each of the other kinds beside
\* them, taken one at a time
NextRoles ==
    \E s \in {1}, ok \in BOOLEAN :
        \/ RoleRoutes(s, ok)
        \/ CreateParcel(s, Body("Box", "unpaid"), ok)
        \/ ConfirmInsert(s, "u@x.com", "tx", 100, 1, "card", ok)
        \/ ConfirmUpdate(s, ok)
        \/ GetParcel(s, "u@x.com", 1, ok)
        \/ DeleteParcel(s, 1, ok)
        \/ GetPayments(s, "u@x.com", "u@x.com", ok)
        \/ ApplyRider(s, [status |-> "pending", district |-> "Dhaka", submittedAt |-> 0], ok)
        \/ \E a \in AssignArgs({1}, {"r1"}) :
                AdminStart(s, "PATCH /parcels/assign/:id", "a@x.com", a, ok)
        \/ AssignRider(s, ok)
        \/ AdminStart(s, "GET /riders/pending", "a@x.com", NoArgs, ok)
        \/ ListRiders(s, ok)

SpecRoles == InitUsers /\ [][NextRoles]_vars

\* ---- applications: rider documents as clients send them, and the admin's lists
NextApply ==
    \E s \in Slots, ok \in BOOLEAN :
        \/ \E st \in {"pending", "active"} :
                ApplyRider(s, [status |-> st, district |-> "Dhaka", submittedAt |-> 0], ok)
        \/ \E op \in {"GET /riders/pending", "GET /riders/active"} :
                AdminStart(s, op, "a@x.com", NoArgs, ok)
        \/ ListRiders(s, ok)
        \/ \E a \in StatusArgs(knownRiders, {"rejected", "deleted"}, {"u@x.com"}) :
                AdminStart(s, "PATCH /riders/:id", "a@x.com", a, ok)
        \/ UpdateStatus(s, ok)

SpecApply == Init /\ [][NextApply]_vars

\* ---- validation: well-formed requests and requests with a field missing or out
\* of range, taken one at a time
BadBodies ==
    {[Body("Box", "unpaid") EXCEPT ![f] = ""] :
        f \in {"name", "type", "senderRegion", "receiverRegion"}}

\* <<email, transactionId, amount>> with at least one of them missing
BadPayments ==
    {x \in {"u@x.com", Undef} \X {"tx", Undef} \X {100, 0} : x # <<"u@x.com", "tx", 100>>}

NextValidation ==
    \E s \in {1}, ok \in BOOLEAN :
        \/ \E body \in BadBodies \cup {Body("Box", "unpaid")} : CreateParcel(s, body, ok)
        \/ \E x \in BadPayments \cup {<<"u@x.com", "tx", 100>>} :
                ConfirmInsert(s, x[1], x[2], x[3], 1, "card", ok)
        \/ ConfirmUpdate(s, ok)
        \/ ApplyRider(s, [status |-> "pending", district |-> "Dhaka", submittedAt |-> 0], ok)
        \/ \E a \in StatusArgs({1}, {Undef, "deleted", "active", "rejected"},
                                {"u@x.com"}) :
                AdminStart(s, "PATCH /riders/:id", "a@x.com", a, ok)
        \/ UpdateStatus(s, ok)
        \/ UpdateStatusWrite(s, ok)

SpecValidation == Init /\ [][NextValidation]_vars

\* ---- listings: a database earlier requests filled, parcels or riders stored in
\* an order that is not the order of their timestamps, read back through every
\* listing route
ParcelSeeds ==
    {[parcelDoc(Body("Box", p)) EXCEPT !.user_email = e, !.delivery_status = d,
                                       !.creation_date = c] :
        e \in {"a@x.com", "u@x.com"}, p \in {"unpaid", "paid"},
        d \in {"not_collected", "in_transit"}, c \in ParcelDates}

RiderSeeds ==
    {riderDoc([status |-> st, district |-> di, submittedAt |-> t]) :
        st \in {"pending", "active"}, di \in {"Dhaka", "Sylhet"}, t \in 0..2}

\* <<email, payment_status, delivery_status>> of the query string: none, one, two
\* and three of the filters supplied
ListQueries ==
    {<<"", "", "">>, <<"u@x.com", "", "">>, <<"", "", "in_transit">>,
     <<"u@x.com", "paid", "">>, <<"u@x.com", "paid", "in_transit">>}

InitList ==
    /\ users = SeedUsers
    /\ payments = <<>>
    /\ reqs = [s \in Slots |-> Idle]
    /\ last = Idle
    /\ denials = {}
    /\ now = 0
    /\ \/ /\ parcels \in [1..MaxListed -> ParcelSeeds]
          /\ riders = [i \in RiderIds |-> NoDoc]
          /\ hist = [parcelIds |-> 1..MaxListed, riderIds |-> {}, everPaid |-> {},
                     paidOk |-> {}]
       \/ /\ riders \in [1..MaxListed -> RiderSeeds]
          /\ parcels = [i \in ParcelIds |-> NoDoc]
          /\ hist = [parcelIds |-> {}, riderIds |-> 1..MaxListed, everPaid |-> {},
                     paidOk |-> {}]

NextList ==
    \E s \in {1}, ok \in BOOLEAN :
        \/ \E x \in ListQueries : ListParcels(s, "u@x.com", x[1], x[2], x[3], ok)
        \/ \E op \in {"GET /riders/pending", "GET /riders/active"} :
                AdminStart(s, op, "a@x.com", NoArgs, ok)
        \/ ListRiders(s, ok)
        \/ \E a \in QueryArgs({"Dhaka"}) :
                AdminStart(s, "GET /riders/by-district", "a@x.com", a, ok)
        \/ ListByDistrict(s, ok)

SpecList == InitList /\ [][NextList]_vars

\* ---- revocation: admin mutations in flight while roles are being changed
NextRevoke ==
    \E s \in Slots, ok \in BOOLEAN :
        \/ \E c \in {"a@x.com", "u@x.com"} :
            \/ \E a \in AssignArgs({1}, {"r1"}) :
                    AdminStart(s, "PATCH /parcels/assign/:id", c, a, ok)
            \/ \E a \in StatusArgs({1}, {"active"}, {"a@x.com"}) :
                    AdminStart(s, "PATCH /riders/:id", c, a, ok)
            \/ \E a \in RoleArgs({"u@x.com"}) :
                    AdminStart(s, "PATCH /users/make-admin/:email", c, a, ok)
            \/ \E a \in RoleArgs({"a@x.com"}) :
                    AdminStart(s, "PATCH /users/remove-admin/:email", c, a, ok)
        \/ AssignRider(s, ok)
        \/ UpdateStatus(s, ok)
        \/ UpdateStatusWrite(s, ok)
        \/ MakeAdmin(s, ok)
        \/ RemoveAdmin(s, ok)

SpecRevoke == InitAccess /\ [][NextRevoke]_vars

\* ------------------------------------------------------------------ claims
paid(ps, p) == ps[p].stored /\ ps[p].payment_status = "paid"

\* context s answers in this step
answers(s) == reqs[s].pc # "idle" /\ reqs'[s].pc = "idle"

\* context s is a payment confirmation for parcel p performing its parcel update
confirms(s, p) ==
    /\ reqs[s].op = "POST /payments"
    /\ reqs[s].pc = "update"
    /\ reqs[s].id = p
    /\ answers(s)

paymentsOf(p) == {i \in 1..Len(payments) : payments[i].parcelId = p}

\* the storage call of the step itself failed: one more call made, answered 500
storageFailed(s) == last'.calls = reqs[s].calls + 1 /\ last'.res.status = 500

C2_PaidAndOnePayment ==
    \A p \in hist.paidOk \cap hist.parcelIds :
        /\ parcels[p].stored => parcels[p].payment_status = "paid"
        /\ Cardinality(paymentsOf(p)) = 1

\* C3: every stored Payment record refers to a parcel that was stored and has or had
\* payment_status = paid, unless the confirmation that inserted it is still
\* between its insert and its parcel update.
C3_PaymentImpliesPaid ==
    \A i \in 1..Len(payments) :
        \/ /\ payments[i].parcelId \in hist.parcelIds
           /\ payments[i].parcelId \in hist.everPaid
        \/ \E s \in Slots : /\ reqs[s].op = "POST /payments"
                            /\ reqs[s].pc = "update"
                            /\ reqs[s].res.inserted = i

\* C4: a confirmation that has inserted its Payment record is answered with
\* success and the inserted payment id, with a modified count of 0 when the parcel
\* update changes no parcel; it is not answered with a failure (other than for a
\* parcel update call that itself failed).
C4_SuccessAfterInsert ==
    [][\A s \in Slots :
        (reqs[s].op = "POST /payments" /\ reqs[s].pc = "update" /\ answers(s))
            => \/ storageFailed(s)
               \/ /\ last'.res.status = 200
                  /\ last'.res.inserted = reqs[s].res.inserted
                  /\ (modifiedPaid(parcels, reqs[s].id) = 0 => last'.res.modified = 0)]_vars

assignment(doc) ==
    <<doc.assignRider_id, doc.assignRider_name, doc.riderContact, doc.assignedAt>>

\* C5: an AssignRider on a parcel that already has a rider (delivery_status =
\* in_transit, assignment fields set), naming the same or another rider, is
\* answered NotFound and leaves the four assignment fields as they were.
C5_SecondAssignNoOp ==
    [][\A s \in Slots :
        (/\ reqs[s].op = "PATCH /parcels/assign/:id"
         /\ reqs[s].pc = "handler"
         /\ answers(s)
         /\ reqs[s].riderId # Undef
         /\ matches(parcels, reqs[s].id)
         /\ parcels[reqs[s].id].delivery_status = "in_transit"
         /\ parcels[reqs[s].id].assignRider_id # Undef)
            => /\ storageFailed(s) \/ last'.res.status = 404
               /\ assignment(parcels'[reqs[s].id]) = assignment(parcels[reqs[s].id])]_vars

\* what GET /users/role/:email answers for email
roleOf(us, email) ==
    IF findOneUser(us, email) = 0 THEN "NotFound" ELSE us[findOneUser(us, email)].role

\* context s is an UpdateStatus performing its rider status write
writesStatus(s) ==
    /\ reqs[s].op = "PATCH /riders/:id"
    /\ \/ reqs[s].pc = "write"
       \/ reqs[s].pc = "handler" /\ reqs[s].status \in validStatus \ {"active"}
    /\ answers(s)

\* context s is an UpdateStatus(active) performing its role promotion
promotes(s) ==
    /\ reqs[s].op = "PATCH /riders/:id"
    /\ reqs[s].pc = "handler"
    /\ reqs'[s].pc = "write"

C7_RoleIsRiderAfterUpdate ==
    [][\A s \in Slots :
        (reqs[s].op = "PATCH /riders/:id" /\ reqs[s].pc = "write" /\ answers(s))
            => roleOf(users', reqs[s].email) = "rider"]_vars

\* C7, amended: the role promotion of UpdateStatus(riderId, active, email) leaves
\* GetRole(email) = rider for every email that has a User record, and changes
\* nothing for an email that has none (GetRole stays NotFound); a rider becomes
\* active only after that promotion, and the status write, whatever it reports,
\* leaves the users as they are.
C7_PromotionKept ==
    [][\A s \in Slots :
        /\ promotes(s) =>
              IF findOneUser(users, reqs[s].email) # 0
              THEN roleOf(users', reqs[s].email) = "rider"
              ELSE users' = users /\ roleOf(users', reqs[s].email) = "NotFound"
        /\ (writesStatus(s) /\ reqs[s].status = "active") => reqs[s].pc = "write"
        /\ writesStatus(s) => users' = users]_vars

\* an UpdateStatus(active) whose status write reported NotFound, the user a rider
C7_Witness ==
    /\ last.op = "PATCH /riders/:id"
    /\ last.at = "write"
    /\ last.res.status = 404
    /\ roleOf(users, "u@x.com") = "rider"

storedAdmin(us, c) == \E i \in 1..Len(us) : us[i].email = c /\ us[i].role = "admin"

\* C8: a request to an admin route from an authenticated caller who is not a stored
\* admin is not let through to the handler: it ends at verifyAdmin with the four
\* collections unchanged, and the response it gets is 403 Forbidden.
C8_AdminOnly ==
    [][/\ \A s \in Slots :
            (reqs[s].pc = "idle" /\ reqs'[s].pc = "handler" /\ reqs'[s].op \in AdminOps)
                => storedAdmin(users, reqs'[s].cred)
       /\ (/\ reqs' = reqs
           /\ last' # last
           /\ last'.op \in AdminOps
           /\ last'.cred \in Emails
           /\ ~storedAdmin(users, last'.cred))
            => /\ last'.at = "verifyAdmin"
               /\ db' = db
               /\ last'.pc = "done" => /\ last'.res.status = 403
                                       /\ last'.res.message = "Forbidden access"]_vars

\* a stored user who is not an admin has been refused on the assignment route
C8_Witness ==
    /\ last.op = "PATCH /parcels/assign/:id"
    /\ last.pc = "done"
    /\ last.at = "verifyAdmin"
    /\ last.cred = "u@x.com"
    /\ last.res.status = 403
    /\ db = <<SeedUsers, riders, parcels, payments>>
    /\ parcels[1].delivery_status = "not_collected"

\* C9: a request to a protected route that presents no credential is answered with
\* a 401 or 403 before any storage call is made.
C9_NoCredentialRejected ==
    (last.pc = "done" /\ last.cred \in {"none", "notoken"})
        => /\ last.res.status \in {401, 403}
           /\ last.calls = 0

\* C10: the refusal sent for a missing credential and the refusal sent for a valid
\* credential without the admin role never carry the same status and message.
C10_DistinctRefusals ==
    \A x, y \in denials :
        (x.cause = "no credential" /\ y.cause = "role")
            => <<x.status, x.message>> # <<y.status, y.message>>

\* both refusals have been sent
C10_Witness ==
    /\ \E x \in denials : x.cause = "no credential"
    /\ \E y \in denials : y.cause = "role"

\* C11: GET /payments hands out Payment records only to a caller whose token email
\* equals the queried email, and then only records of that email; a caller with
\* any other email, an admin included, is answered 403 Forbidden with no record
\* and before any storage call.
C11_HistoryOwnerOnly ==
    (last.op = "GET /payments" /\ last.pc = "done")
        => /\ last.res.rows # <<>>
                => /\ last.cred = last.email
                   /\ last.res.status = 200
                   /\ \A k \in DOMAIN last.res.rows :
                        payments[last.res.rows[k]].email = last.email
           /\ (last.cred \in Emails /\ last.cred # last.email)
                => /\ last.res.status = 403
                   /\ last.res.rows = <<>>
                   /\ last.calls = 0

\* the admin asked for the payments of another user, who has some, and was refused
C11_Witness ==
    /\ last.op = "GET /payments"
    /\ last.cred = "a@x.com"
    /\ isAdmin(users, findOneUser(users, "a@x.com"))
    /\ last.email = "u@x.com"
    /\ last.res.status = 403
    /\ paymentsOfEmail("u@x.com") # {}

\* contexts s and t are both past the middlewares of route op, for the same id
together(s, t, op) ==
    /\ s # t
    /\ reqs[s].op = op
    /\ reqs[t].op = op
    /\ reqs[s].pc \in {"handler", "write"}
    /\ reqs[t].pc \in {"handler", "write"}
    /\ reqs[s].id = reqs[t].id

\* C12 (parcels): of two AssignRider requests in flight together for one parcel,
\* once one has been applied the other finds nothing to modify: run against the
\* record the first left, its update would report zero modified documents.
C12_ConcurrentAssign ==
    [][\A s, t \in Slots :
        (/\ together(s, t, "PATCH /parcels/assign/:id")
         /\ reqs[t].riderId # Undef
         /\ answers(s)
         /\ last'.res.status = 200)
            => modifiedAssign(parcels', reqs[t].id, updateData(reqs[t], now')) = 0]_vars

\* C12 (riders): of two UpdateStatus requests in flight together for one rider,
\* once one has been applied the other finds nothing to modify: the status it
\* would write is the one stored.
C12_ConcurrentUpdateStatus ==
    [][\A s, t \in Slots :
        (/\ together(s, t, "PATCH /riders/:id")
         /\ reqs[t].status \in validStatus
         /\ writesStatus(s)
         /\ last'.res.status = 200)
            => riders'[reqs[t].id].status = reqs[t].status]_vars

\* C13: the users collection holds at most one record per email.
C13_UniqueEmail ==
    \A i, j \in 1..Len(users) : users[i].email = users[j].email => i = j

\* context s is a GrantAdmin or RevokeAdmin performing its role update
grants(s, op) == atHandler(s, op) /\ answers(s)

\* C14: no step removes or replaces a User record, and the role of a stored record
\* changes only in the promotion step of an UpdateStatus(active) naming its email
\* (to rider), in a make-admin step naming it (to admin) or in a remove-admin step
\* naming it (to user).
C14_RoleFrame ==
    [][/\ Len(users') >= Len(users)
       /\ \A i \in 1..Len(users) :
            /\ users'[i].email = users[i].email
            /\ users'[i].role # users[i].role
                => \E s \in Slots :
                    /\ reqs[s].email = users[i].email
                    /\ \/ promotes(s) /\ users'[i].role = "rider"
                       \/ /\ grants(s, "PATCH /users/make-admin/:email")
                          /\ users'[i].role = "admin"
                       \/ /\ grants(s, "PATCH /users/remove-admin/:email")
                          /\ users'[i].role = "user"]_vars

\* a POST /users for a stored email was rejected after that user had been promoted
C14_Witness ==
    /\ last.op = "POST /users"
    /\ last.res.status = 409
    /\ roleOf(users, "u@x.com") = "rider"

\* C15: a stored Payment record is never modified or removed by any step, and
\* every Payment record carries payment_status = paid.
C15_PaymentsImmutable ==
    [][/\ Len(payments') >= Len(payments)
       /\ \A i \in 1..Len(payments) : payments'[i] = payments[i]
       /\ \A i \in 1..Len(payments') : payments'[i].payment_status = "paid"]_vars

\* two Payment records of a parcel are stored, and the parcel was deleted after
\* both confirmations had been answered
C15_Witness ==
    /\ Len(payments) = 2
    /\ \A i \in 1..2 : payments[i].parcelId = 1
    /\ 1 \in hist.parcelIds
    /\ ~parcels[1].stored
    /\ last.op = "DELETE /parcels/:id"
    /\ last.res.status = 200
    /\ \A s \in Slots : reqs[s].pc = "idle"

\* C16: a parcel that a Create has just stored has payment_status = unpaid.
C16_CreatedUnpaid ==
    [][\A p \in ParcelIds :
        (~parcels[p].stored /\ parcels'[p].stored)
            => /\ last'.op = "POST /parcels"
               /\ last'.res.status = 201
               /\ parcels'[p].payment_status = "unpaid"]_vars

\* C17: a rider record that an Apply has just stored has status = pending, and so
\* is among the rows the pending list would return.
C17_AppliedPending ==
    [][\A i \in RiderIds :
        (~riders[i].stored /\ riders'[i].stored)
            => /\ last'.op = "POST /riders"
               /\ riders'[i].status = "pending"
               /\ i \in ridersWith("pending", "")']_vars

inTransit(ps, p) == ps[p].stored /\ ps[p].delivery_status = "in_transit"

\* C18: a stored parcel with delivery_status = in_transit has its assignRider_id
\* and assignedAt set, and a parcel comes to be in_transit only by the update of
\* an AssignRider on it.
C18_InTransitAssigned ==
    [][\A p \in ParcelIds :
        inTransit(parcels', p)
            => /\ parcels'[p].assignRider_id # Undef
               /\ parcels'[p].assignedAt # -1
               /\ ~inTransit(parcels, p)
                    => \E s \in Slots : /\ atHandler(s, "PATCH /parcels/assign/:id")
                                        /\ reqs[s].id = p
                                        /\ answers(s)]_vars

\* C19: every request that has ended, ended with a response its handler sent: no
\* failure of a storage call left a handler uncaught.
C19_FailuresCaught ==
    /\ last.pc \in {"idle", "done"}
    /\ last.pc = "done" => last.res.status # 0

\* C20: a Create whose body lacks one of name, type, senderRegion, receiverRegion,
\* a Confirm that lacks one of email, transactionId, amount, and an UpdateStatus
\* whose status is missing or outside pending/active/rejected are each answered
\* 400 with the four collections left as they were.
C20_RejectedChangesNothing ==
    [][\A s \in Slots, ok \in BOOLEAN :
        /\ \A body \in BadBodies :
            CreateParcel(s, body, ok) => db' = db /\ last'.res.status = 400
        /\ \A x \in BadPayments :
            ConfirmInsert(s, x[1], x[2], x[3], 1, "card", ok)
                => db' = db /\ last'.res.status = 400
        /\ (reqs[s].status \notin {"pending", "active", "rejected"} /\ UpdateStatus(s, ok))
                => db' = db /\ last'.res.status = 400]_vars

\* an UpdateStatus with a status outside the three was rejected while a pending
\* rider, an unpaid parcel and the seed users were stored, and they still are
C20_Witness ==
    /\ last.op = "PATCH /riders/:id"
    /\ last.res.status = 400
    /\ last.res.message = "Invalid status value"
    /\ riders[1].stored /\ riders[1].status = "pending"
    /\ parcels[1].stored /\ parcels[1].payment_status = "unpaid"
    /\ users = SeedUsers
    /\ payments = <<>>

\* rows names every member of S once, and nothing else
lists(rows, S) ==
    /\ {rows[k] : k \in DOMAIN rows} = S
    /\ Len(rows) = Cardinality(S)

C22_AdminAtWrite ==
    [][\A s \in Slots :
        (/\ reqs[s].op \in AdminOps
         /\ reqs[s].pc \in {"handler", "write"}
         /\ reqs'[s] # reqs[s]
         /\ db' # db)
            => storedAdmin(users, reqs[s].cred)]_vars

====
